---- MODULE Spec2Model ----
(***************************************************************************)
(* Verification model of packages/agent/src/certificate.ts (Certificate,   *)
(* reconstruct, lookup_path, flatten_forks, find_label, extractDER) and of *)
(* utils/bls.ts (blsVerify).                                               *)
(*                                                                         *)
(* Byte strings (Buffer, ArrayBuffer, BinaryBlob) are sequences of         *)
(* integers 0..255.  A HashTree is the tuple the TypeScript type gives:    *)
(* <<0>>, <<1, l, r>>, <<2, label, sub>>, <<3, value>>, <<4, digest>>.     *)
(* A value that may be undefined is <<>> (undefined) or <<v>> (the value). *)
(***************************************************************************)
EXTENDS Integers, Sequences, FiniteSets, TLC

VARIABLES
  \* ---- the tree functions applied to bounded trees (TreeSpec)
  tOrig,      \* the tree as first decoded
  tCur,       \* the tree after subtrees were replaced by Pruned digests
  tPath,      \* the path of the last lookup_path call
  tResult,    \* <<>> before any call, <<r>> with r the call's result
  \* ---- lines 130..132 of verify() applied to bounded derKey (DerSpec)
  derIn,      \* derKey
  derOut,     \* <<>> before line 130 ran, <<r>> with r extractDER's outcome
  derBls,     \* <<>> while blsVerify was not called, <<key>> once it was
  \* ---- a Certificate instance, its trust context and its callers (Spec)
  agentRootKey,  \* this._agent.rootKey: <<>> (null) or <<DER bytes>>
  cert,          \* this.cert, the decoded payload
  verified,      \* this.verified
  rootKey,       \* this._rootKey: <<>> (null) or <<DER bytes>>
  calls,         \* the verify() calls on the instance, each with its frames
  started,       \* verify() calls made so far
  keyChanges,    \* changes of the trust context's root key so far
  lastLookup,    \* <<>>, or <<r>> right after a lookup / lookupEx returned r
  everTrue,      \* history: some verify() on the instance resolved to true
  lastCompleted, \* history: how the verify() call that ended last ended
  keysSeen,      \* history: the values agentRootKey has held
  overlapped     \* history: a verify() call was made while another was running

treeVars == <<tOrig, tCur, tPath, tResult>>
derVars == <<derIn, derOut, derBls>>
certVars == <<agentRootKey, cert, verified, rootKey, calls, started, keyChanges,
              lastLookup, everTrue, lastCompleted, keysSeen, overlapped>>
vars == <<tOrig, tCur, tPath, tResult, derIn, derOut, derBls,
          agentRootKey, cert, verified, rootKey, calls, started, keyChanges,
          lastLookup, everTrue, lastCompleted, keysSeen, overlapped>>

(***************************************************************************)
(* Bounds of the model.                                                    *)
(***************************************************************************)
MaxNodes == 6
MaxPathLen == 2
DerFills == 2
MaxChain == 2
MaxCalls == 2
MaxVerifies == 2
MaxKeyChanges == 1

(***************************************************************************)
(* Byte strings.                                                           *)
(***************************************************************************)
\* 'ic-hashtree-empty', ... as their UTF-8 bytes
IC_HASHTREE_EMPTY ==
  <<105, 99, 45, 104, 97, 115, 104, 116, 114, 101, 101, 45, 101, 109, 112, 116, 121>>
IC_HASHTREE_LEAF ==
  <<105, 99, 45, 104, 97, 115, 104, 116, 114, 101, 101, 45, 108, 101, 97, 102>>
IC_HASHTREE_LABELED ==
  <<105, 99, 45, 104, 97, 115, 104, 116, 114, 101, 101, 45, 108, 97, 98, 101, 108, 101, 100>>
IC_HASHTREE_FORK ==
  <<105, 99, 45, 104, 97, 115, 104, 116, 114, 101, 101, 45, 102, 111, 114, 107>>
IC_STATE_ROOT ==
  <<105, 99, 45, 115, 116, 97, 116, 101, 45, 114, 111, 111, 116>>
TEXT_SUBNET == <<115, 117, 98, 110, 101, 116>>
TEXT_PUBLIC_KEY == <<112, 117, 98, 108, 105, 99, 95, 107, 101, 121>>

Undefined == <<>>
Some(v) == <<v>>
IsDefined(o) == Len(o) > 0

\* Buffer.slice(from) and Buffer.slice(from, to), 0-based, end exclusive
BufSlice(buf, from, to) ==
  [i \in 1..(IF to > from THEN to - from ELSE 0) |-> buf[from + i]]

\* (faulty variant: the loop stops one byte early)
isBufferEqual_SkipsLast(a, b) ==
  IF Len(a) # Len(b)
  THEN FALSE
  ELSE \A i \in 1..(Len(a) - 1) : a[i] = b[i]

isBufferEqual(a, b) ==
  IF Len(a) # Len(b)
  THEN FALSE
  ELSE \A i \in 1..Len(a) : a[i] = b[i]

\* domain_sep(s): one byte holding s.length, then the bytes of s
domain_sep(s) == <<Len(s)>> \o s

\* hash (request_id.ts, SHA-256) is an external primitive: modelled as an
\* ideal, collision-free digest, the bracketed preimage (-1 and -2 are no bytes).
hash(x) == <<-1>> \o x \o <<-2>>

(***************************************************************************)
(* Root Reconstructor.                                                     *)
(***************************************************************************)
NodeEmpty == 0
NodeFork == 1
NodeLabeled == 2
NodeLeaf == 3
NodePruned == 4

\* (faulty variant: a Pruned node's digest is hashed like a leaf instead of returned)
RECURSIVE reconstruct_PrunedHashed(_)
reconstruct_PrunedHashed(t) ==
  CASE t[1] = NodeEmpty -> hash(domain_sep(IC_HASHTREE_EMPTY))
    [] t[1] = NodePruned -> hash(t[2])
    [] t[1] = NodeLeaf -> hash(domain_sep(IC_HASHTREE_LEAF) \o t[2])
    [] t[1] = NodeLabeled ->
         hash(domain_sep(IC_HASHTREE_LABELED) \o t[2] \o reconstruct_PrunedHashed(t[3]))
    [] t[1] = NodeFork ->
         hash(domain_sep(IC_HASHTREE_FORK) \o reconstruct_PrunedHashed(t[2])
                \o reconstruct_PrunedHashed(t[3]))

RECURSIVE reconstruct(_)
reconstruct(t) ==
  CASE t[1] = NodeEmpty -> hash(domain_sep(IC_HASHTREE_EMPTY))
    [] t[1] = NodePruned -> t[2]
    [] t[1] = NodeLeaf -> hash(domain_sep(IC_HASHTREE_LEAF) \o t[2])
    [] t[1] = NodeLabeled ->
         hash(domain_sep(IC_HASHTREE_LABELED) \o t[2] \o reconstruct(t[3]))
    [] t[1] = NodeFork ->
         hash(domain_sep(IC_HASHTREE_FORK) \o reconstruct(t[2]) \o reconstruct(t[3]))

(***************************************************************************)
(* Path Lookup.                                                            *)
(***************************************************************************)
\* (faulty variant: the right side of a fork comes first)
RECURSIVE flatten_forks_RightFirst(_)
flatten_forks_RightFirst(t) ==
  CASE t[1] = NodeEmpty -> <<>>
    [] t[1] = NodeFork -> flatten_forks_RightFirst(t[3]) \o flatten_forks_RightFirst(t[2])
    [] OTHER -> <<t>>

RECURSIVE flatten_forks(_)
flatten_forks(t) ==
  CASE t[1] = NodeEmpty -> <<>>
    [] t[1] = NodeFork -> flatten_forks(t[2]) \o flatten_forks(t[3])
    [] OTHER -> <<t>>

\* (faulty variant: the last tree that is Labeled with label l is taken)
find_label_LastMatch(l, trees) ==
  LET hits == {i \in 1..Len(trees) :
                 trees[i][1] = NodeLabeled /\ isBufferEqual(l, trees[i][2])}
  IN IF hits = {}
     THEN Undefined
     ELSE Some(trees[CHOOSE i \in hits : \A j \in hits : i >= j][3])

\* (faulty variant: a tree matches when l is a leading part of its label)
find_label_PrefixMatch(l, trees) ==
  LET hits == {i \in 1..Len(trees) :
                 /\ trees[i][1] = NodeLabeled
                 /\ Len(l) <= Len(trees[i][2])
                 /\ isBufferEqual(l, SubSeq(trees[i][2], 1, Len(l)))}
  IN IF hits = {}
     THEN Undefined
     ELSE Some(trees[CHOOSE i \in hits : \A j \in hits : i <= j][3])


\* the first tree of trees that is Labeled with label l: its subtree
find_label(l, trees) ==
  LET hits == {i \in 1..Len(trees) :
                 trees[i][1] = NodeLabeled /\ isBufferEqual(l, trees[i][2])}
  IN IF hits = {}
     THEN Undefined
     ELSE Some(trees[CHOOSE i \in hits : \A j \in hits : i <= j][3])

\* (faulty variant: with an empty path, a Pruned node's digest is returned like a value)
RECURSIVE lookup_path_PrunedAsLeaf(_, _)
lookup_path_PrunedAsLeaf(path, tree) ==
  IF Len(path) = 0
  THEN IF tree[1] \in {NodeLeaf, NodePruned} THEN Some(tree[2]) ELSE Undefined
  ELSE LET t == find_label(path[1], flatten_forks(tree))
       IN IF IsDefined(t) THEN lookup_path_PrunedAsLeaf(Tail(path), t[1]) ELSE Undefined

\* (t is bound as a value, so that find_label is evaluated once for each label
\* of the path)
RECURSIVE lookup_path(_, _)
lookup_path(path, tree) ==
  IF Len(path) = 0
  THEN IF tree[1] = NodeLeaf THEN Some(tree[2]) ELSE Undefined
  ELSE CHOOSE r \in {IF IsDefined(t) THEN lookup_path(Tail(path), t[1]) ELSE Undefined :
                     t \in {find_label(path[1], flatten_forks(tree))}} : TRUE

(***************************************************************************)
(* DER Key Extractor.                                                      *)
(***************************************************************************)
DER_PREFIX ==
  <<48, 129, 130, 48, 29, 6, 13, 43, 6, 1, 4, 1, 130, 220, 124, 5, 3, 1, 2, 1,
    6, 12, 43, 6, 1, 4, 1, 130, 220, 124, 5, 3, 2, 1, 3, 97, 0>>
KEY_LENGTH == 96

\* (faulty variant: the buffer is handed on as the key, unchecked and uncut)
extractDER_PassThrough(buf) == [ok |-> TRUE, value |-> buf]


\* [ok |-> TRUE, value] on return, [ok |-> FALSE, error] on throw
extractDER(buf) ==
  LET expectedLength == Len(DER_PREFIX) + KEY_LENGTH
      prefix == BufSlice(buf, 0, Len(DER_PREFIX))
  IN IF Len(buf) # expectedLength
     THEN [ok |-> FALSE, error |-> "TypeError: must be expectedLength bytes long"]
     ELSE IF ~isBufferEqual(prefix, DER_PREFIX)
     THEN [ok |-> FALSE, error |-> "TypeError: invalid prefix"]
     ELSE [ok |-> TRUE, value |-> BufSlice(buf, Len(DER_PREFIX), Len(buf))]

(***************************************************************************)
(* The values the variables of the other specifications rest at.           *)
(***************************************************************************)
TreeIdle ==
  /\ tOrig = <<NodeEmpty>>
  /\ tCur = <<NodeEmpty>>
  /\ tPath = <<>>
  /\ tResult = <<>>

DerIdle ==
  /\ derIn = <<>>
  /\ derOut = <<>>
  /\ derBls = <<>>

CertIdle ==
  /\ agentRootKey = <<>>
  /\ cert = <<>>
  /\ verified = FALSE
  /\ rootKey = <<>>
  /\ calls = <<>>
  /\ started = 0
  /\ keyChanges = 0
  /\ lastLookup = <<>>
  /\ everTrue = FALSE
  /\ lastCompleted = "none"
  /\ keysSeen = {}
  /\ overlapped = FALSE

(***************************************************************************)
(* Positions in a tree: the child indices from the root (2, 3 under a      *)
(* Fork, 3 under a Labeled node).                                          *)
(***************************************************************************)
RECURSIVE Positions(_)
Positions(t) ==
  {<<>>} \cup
  (CASE t[1] = NodeFork ->
          {<<2>> \o p : p \in Positions(t[2])} \cup {<<3>> \o p : p \in Positions(t[3])}
     [] t[1] = NodeLabeled -> {<<3>> \o p : p \in Positions(t[3])}
     [] OTHER -> {})

RECURSIVE SubtreeAt(_, _)
SubtreeAt(t, pos) ==
  IF Len(pos) = 0 THEN t ELSE SubtreeAt(t[pos[1]], Tail(pos))

RECURSIVE ReplaceAt(_, _, _)
ReplaceAt(t, pos, n) ==
  IF Len(pos) = 0
  THEN n
  ELSE [t EXCEPT ![pos[1]] = ReplaceAt(t[pos[1]], Tail(pos), n)]

(***************************************************************************)
(* TreeSpec: reconstruct and lookup_path applied to every tree of at most  *)
(* MaxNodes nodes, and to what a sender makes of it by pruning.            *)
(***************************************************************************)
\* two labels, one a prefix of the other
LabelA == <<97>>
LabelB == <<97, 98>>
Labels == {LabelA, LabelB}
LeafValues == {<<1>>, <<2>>}
RawDigest == <<7>>
Atoms == {<<NodeEmpty>>} \cup {<<NodeLeaf, v>> : v \in LeafValues}
           \cup {<<NodePruned, RawDigest>>}

TreesOfSize[n \in 1..MaxNodes] ==
  IF n = 1
  THEN Atoms
  ELSE {<<NodeLabeled, l, s>> : l \in Labels, s \in TreesOfSize[n - 1]}
       \cup UNION {{<<NodeFork, a, b>> : a \in TreesOfSize[k],
                                         b \in TreesOfSize[n - 1 - k]} :
                   k \in 1..(n - 2)}

Trees == UNION {TreesOfSize[n] : n \in 1..MaxNodes}
Paths == UNION {[1..n -> Labels] : n \in 0..MaxPathLen}

TreeInit ==
  /\ tOrig \in Trees
  /\ tCur = tOrig
  /\ tPath = <<>>
  /\ tResult = <<>>
  /\ DerIdle
  /\ CertIdle

\* the sender replaces the subtree at pos by Pruned(reconstruct(subtree))
TreePrune(pos) ==
  /\ SubtreeAt(tCur, pos)[1] # NodePruned
  /\ tCur' = ReplaceAt(tCur, pos, <<NodePruned, reconstruct(SubtreeAt(tCur, pos))>>)
  /\ tResult' = <<>>
  /\ UNCHANGED <<tOrig, tPath, derVars, certVars>>

TreeLookup(p) ==
  /\ tPath' = p
  /\ tResult' = <<lookup_path(p, tCur)>>
  /\ UNCHANGED <<tOrig, tCur, derVars, certVars>>

TreeNext ==
  \/ \E pos \in Positions(tCur) : TreePrune(pos)
  \/ \E p \in Paths : TreeLookup(p)

TreeSpec == TreeInit /\ [][TreeNext]_vars

(***************************************************************************)
(* Properties of the tree functions (TreeSpec).  The fork spine of a tree  *)
(* is described by positions, with no use of flatten_forks or find_label.  *)
(***************************************************************************)
\* the positions reached from the root through Fork nodes only, at a node that
\* is neither a Fork nor Empty
SpinePositions(t) ==
  {pos \in Positions(t) :
     /\ \A k \in 0..(Len(pos) - 1) : SubtreeAt(t, SubSeq(pos, 1, k))[1] = NodeFork
     /\ SubtreeAt(t, pos)[1] \notin {NodeFork, NodeEmpty}}

\* p is left of q: at the first fork where they part, p goes left
LeftOf(p, q) ==
  \E i \in 1..Len(p) :
    /\ i <= Len(q)
    /\ \A j \in 1..(i - 1) : p[j] = q[j]
    /\ p[i] < q[i]

\* <<>>, or <<pos>> with pos the leftmost spine position of a Labeled node
\* whose label is l
FirstLabeled(l, t) ==
  LET hits == {pos \in SpinePositions(t) :
                 /\ SubtreeAt(t, pos)[1] = NodeLabeled
                 /\ SubtreeAt(t, pos)[2] = l}
  IN IF hits = {}
     THEN <<>>
     ELSE <<CHOOSE p \in hits : \A q \in hits \ {p} : LeftOf(p, q)>>

\* <<>>, or <<node>> with node the node the labels of path lead to
RECURSIVE Target(_, _)
Target(path, t) ==
  IF Len(path) = 0
  THEN <<t>>
  ELSE LET f == FirstLabeled(path[1], t)
       IN IF f = <<>> THEN <<>> ELSE Target(Tail(path), SubtreeAt(t, f[1])[3])

\* C7: replacing a subtree S of T by Pruned(reconstruct(S)), once or
\* repeatedly, S inside T or T itself, leaves reconstruct(T) unchanged.
C7_PruningKeepsDigest == reconstruct(tCur) = reconstruct(tOrig)

\* C7 witness: both sides of a fork were pruned, the left one a fork itself
C7_Witness ==
  /\ tOrig[1] = NodeFork
  /\ tOrig[2][1] = NodeFork
  /\ tOrig[3][1] = NodeLabeled
  /\ tCur[1] = NodeFork
  /\ tCur[2][1] = NodePruned
  /\ tCur[3][1] = NodePruned

\* C8: for a path that is not empty, lookup_path gives lookup_path(rest, sub)
\* with sub the subtree of the leftmost Labeled node of the fork spine whose
\* label equals path[0], however deep in the forks and on whichever side it
\* sits, and not found when there is no such node.
C8_LookupFindsFirstLabel ==
  (tResult # <<>> /\ Len(tPath) > 0) =>
    LET f == FirstLabeled(tPath[1], tCur)
    IN tResult[1] = IF f = <<>>
                    THEN Undefined
                    ELSE lookup_path(Tail(tPath), SubtreeAt(tCur, f[1])[3])

\* C8 witness: the label is found on the right side of a fork nested in the
\* left side of a fork
C8_Witness ==
  /\ tResult # <<>>
  /\ Len(tPath) = 1
  /\ tCur[1] = NodeFork
  /\ tCur[2][1] = NodeFork
  /\ tCur[2][3][1] = NodeLabeled
  /\ tCur[2][3][2] = tPath[1]
  /\ IsDefined(tResult[1])

\* C9: with an empty path lookup_path returns the value exactly of a Leaf, and
\* not found for Empty, Fork, Labeled and Pruned; so a path gives a value
\* exactly when its labels lead to a Leaf, and not found when they lead to
\* another node or into a Pruned node.
C9_ValueOnlyAtLeaf ==
  tResult # <<>> =>
    LET tg == Target(tPath, tCur)
    IN /\ Len(tPath) = 0 =>
            tResult[1] = IF tCur[1] = NodeLeaf THEN <<tCur[2]>> ELSE <<>>
       /\ tResult[1] = IF tg # <<>> /\ tg[1][1] = NodeLeaf THEN <<tg[1][2]>> ELSE <<>>

\* C9 witness: a label leads to a Pruned node, which the empty rest of the
\* path does not read
C9_Witness ==
  /\ tResult = <<Undefined>>
  /\ Len(tPath) = 1
  /\ Target(tPath, tCur) # <<>>
  /\ Target(tPath, tCur)[1][1] = NodePruned

(***************************************************************************)
(* DerSpec: lines 130..132 of verify() applied to a derKey drawn from the  *)
(* well-formed keys and from what differs from them in length or in one    *)
(* byte.                                                                   *)
(***************************************************************************)
\* a raw 96-byte key, its bytes all different from their neighbours
RawKey(k) == [i \in 1..KEY_LENGTH |-> (i + k) % 256]
DerOf(raw) == DER_PREFIX \o raw

DerVariants(g) ==
  {g, g \o <<0>>, <<0>> \o g, Tail(g), DER_PREFIX \o g,
   [i \in 1..Len(g) |-> 0]}
  \cup {[g EXCEPT ![i] = (g[i] + 1) % 256] : i \in 1..Len(DER_PREFIX)}
  \cup {[g EXCEPT ![i] = (g[i] + 1) % 256] : i \in {Len(DER_PREFIX) + 1, Len(g)}}
  \cup {SubSeq(g, 1, n) : n \in {0, 1, Len(DER_PREFIX) - 1, Len(DER_PREFIX),
                                 Len(DER_PREFIX) + 1, KEY_LENGTH, Len(g) - 1}}
  \cup {SubSeq(g, n, Len(g)) : n \in {Len(DER_PREFIX), Len(DER_PREFIX) + 1}}

DerInputs == UNION {DerVariants(DerOf(RawKey(k))) : k \in 0..(DerFills - 1)}

DerInit ==
  /\ derIn \in DerInputs
  /\ derOut = <<>>
  /\ derBls = <<>>
  /\ TreeIdle
  /\ CertIdle

\* line 130: const key = extractDER(derKey)
DerExtract ==
  /\ derOut = <<>>
  /\ derOut' = <<extractDER(derIn)>>
  /\ UNCHANGED <<derIn, derBls, treeVars, certVars>>

\* line 132: blsVerify(key, sig, msg), reached only when line 130 returned
DerBlsCall ==
  /\ derOut # <<>>
  /\ derOut[1].ok
  /\ derBls = <<>>
  /\ derBls' = <<derOut[1].value>>
  /\ UNCHANGED <<derIn, derOut, treeVars, certVars>>

DerNext == DerExtract \/ DerBlsCall

DerSpec == DerInit /\ [][DerNext]_vars

(***************************************************************************)
(* Properties of the DER key extractor (DerSpec).                          *)
(***************************************************************************)
WellFormedDer(buf) ==
  /\ Len(buf) = Len(DER_PREFIX) + KEY_LENGTH
  /\ SubSeq(buf, 1, Len(DER_PREFIX)) = DER_PREFIX

\* C10: extractDER returns exactly for an input of length prefixLength + 96
\* whose leading bytes are the DER prefix, and then returns the trailing 96
\* bytes; for every other input it throws, and verify() calls blsVerify with
\* no key but the one extractDER returned.
C10_ExtractDER ==
  /\ derOut # <<>> =>
       /\ derOut[1].ok = WellFormedDer(derIn)
       /\ derOut[1].ok =>
            /\ Len(derOut[1].value) = KEY_LENGTH
            /\ derOut[1].value = SubSeq(derIn, Len(DER_PREFIX) + 1, Len(derIn))
  /\ derBls # <<>> =>
       /\ derOut # <<>>
       /\ WellFormedDer(derIn)
       /\ derBls[1] = SubSeq(derIn, Len(DER_PREFIX) + 1, Len(derIn))

\* C10 witness: an input of the right length whose last prefix byte differs
\* was rejected
C10_Witness ==
  /\ derOut # <<>>
  /\ ~derOut[1].ok
  /\ Len(derIn) = Len(DER_PREFIX) + KEY_LENGTH
  /\ SubSeq(derIn, 1, Len(DER_PREFIX) - 1) = SubSeq(DER_PREFIX, 1, Len(DER_PREFIX) - 1)
  /\ derBls = <<>>

(***************************************************************************)
(* The signature check (utils/bls.ts).  core_verify is the pairing         *)
(* library's: an abstract signature names the raw key and the message it   *)
(* was made for, and core_verify returns 0 exactly for that key and        *)
(* message.                                                                *)
(***************************************************************************)
Sign(raw, msg) == [signer |-> raw, msg |-> msg]

BLS_OK == 0
BLS_FAIL == -1
core_verify(sig, msg, pk) ==
  IF isBufferEqual(sig.signer, pk) /\ isBufferEqual(sig.msg, msg)
  THEN BLS_OK
  ELSE BLS_FAIL

\* (faulty variant: the result code is read the wrong way round)
blsVerify_NonZeroIsOk(pk, sig, msg) ==
  LET res == core_verify(sig, msg, pk)
  IN IF res = 0 THEN FALSE ELSE TRUE

blsVerify(pk, sig, msg) ==
  LET res == core_verify(sig, msg, pk)
  IN IF res = 0 THEN TRUE ELSE FALSE

\* line 131: Buffer.concat([domain_sep('ic-state-root'), rootHash])
StateRootMsg(rootHash) == domain_sep(IC_STATE_ROOT) \o rootHash

(***************************************************************************)
(* lookupPathEx: a path element is <<"string", utf8>> or <<"buffer", b>>.  *)
(***************************************************************************)
blobFromText(p) == p[2]
blobFromUint8Array(p) == p[2]

lookupPathEx(path, tree) ==
  LET maybeReturn ==
        lookup_path([i \in 1..Len(path) |->
                       IF path[i][1] = "string"
                       THEN blobFromText(path[i])
                       ELSE blobFromUint8Array(path[i])],
                    tree)
  IN maybeReturn

(***************************************************************************)
(* The certificates of the model: chains of at most MaxChain delegations.  *)
(* A certificate's tree holds the time and the key of a subnet; the        *)
(* innermost certificate is signed by a root key, every other one by the   *)
(* subnet key its delegate's tree gives.                                   *)
(***************************************************************************)
TEXT_TIME == <<116, 105, 109, 101>>

RootRaw == RawKey(50)
RogueRaw == RawKey(100)
SubnetRaw(n) == RawKey(n)
SubnetId(n) == <<n>>

Labeled(l, t) == <<NodeLabeled, l, t>>
Fork(l, r) == <<NodeFork, l, r>>
Leaf(v) == <<NodeLeaf, v>>

KeyEntryKinds == {"good", "absent", "pruned", "nonleaf", "malformed"}

\* the tree of the certificate at nesting level n, its subnet key entry of a kind
CertTree(kind, n) ==
  LET keyLeaf == Leaf(DerOf(SubnetRaw(n)))
      entry ==
        CASE kind = "good" ->
               Labeled(SubnetId(n), Labeled(TEXT_PUBLIC_KEY, keyLeaf))
          [] kind = "absent" ->
               Labeled(SubnetId(n + 10), Labeled(TEXT_PUBLIC_KEY, keyLeaf))
          [] kind = "pruned" ->
               Labeled(SubnetId(n),
                       <<NodePruned, reconstruct(Labeled(TEXT_PUBLIC_KEY, keyLeaf))>>)
          [] kind = "nonleaf" ->
               Labeled(SubnetId(n),
                       Labeled(TEXT_PUBLIC_KEY, Labeled(TEXT_TIME, keyLeaf)))
          [] kind = "malformed" ->
               Labeled(SubnetId(n),
                       Labeled(TEXT_PUBLIC_KEY, Leaf(Tail(DerOf(SubnetRaw(n))))))
  IN Fork(Labeled(TEXT_SUBNET, entry), Labeled(TEXT_TIME, Leaf(<<n>>)))

\* "good": by the signer, over the tree's digest; "tampered": by the signer, over
\* another digest; "rogue", "byroot": over the tree's digest, by another key
MakeSignature(kind, signer, tree) ==
  CASE kind = "good" -> Sign(signer, StateRootMsg(reconstruct(tree)))
    [] kind = "tampered" -> Sign(signer, StateRootMsg(reconstruct(<<NodeEmpty>>)))
    [] kind = "rogue" -> Sign(RogueRaw, StateRootMsg(reconstruct(tree)))
    [] kind = "byroot" -> Sign(RootRaw, StateRootMsg(reconstruct(tree)))

\* what the certificate at level n of a chain of d delegations varies in
TreeKinds(n, d) ==
  CASE n = 0 -> {"good"}
    [] n = 1 /\ d = 1 -> KeyEntryKinds
    [] n = d -> {"good"}
    [] OTHER -> {"good", "absent"}

\* cbor.encode / cbor.decode of a certificate (cbor.ts): the bytes hold the payload
cborEncode(c) == [cbor |-> c]
cborDecode(bytes) == bytes.cbor

\* the certificates at level n of the chains of d delegations
RECURSIVE Chains(_, _)
Chains(n, d) ==
  IF n = d
  THEN {[tree |-> CertTree(k, n),
         signature |-> MakeSignature(s, RootRaw, CertTree(k, n)),
         delegation |-> <<>>] :
          k \in TreeKinds(n, d), s \in {"good", "tampered", "rogue"}}
  ELSE {[tree |-> CertTree(k, n),
         signature |-> MakeSignature(s, SubnetRaw(n + 1), CertTree(k, n)),
         delegation |-> <<[subnet_id |-> SubnetId(n + 1),
                           certificate |-> cborEncode(inner)]>>] :
          k \in TreeKinds(n, d),
          s \in (IF n = 0 THEN {"good", "tampered", "byroot"} ELSE {"good", "tampered"}),
          inner \in Chains(n + 1, d)}

Certs == UNION {Chains(0, d) : d \in 0..MaxChain}

RECURSIVE ChainDepth(_)
ChainDepth(c) ==
  IF c.delegation = <<>>
  THEN 0
  ELSE 1 + ChainDepth(cborDecode(c.delegation[1].certificate))

\* the values the trust context's root key takes
RootKeyChoices == {<<>>, <<DerOf(RootRaw)>>, <<Tail(DerOf(RootRaw))>>}
\* the root key of getDefaultAgent()
DefaultAgentKey == <<DerOf(RogueRaw)>>

(***************************************************************************)
(* Spec: one Certificate instance, the verify() calls on it (which may     *)
(* overlap at their awaits), the lookups on it and its trust context.      *)
(* A verify() call holds one frame per certificate of the chain it has     *)
(* reached: frames[1] is the instance's own, frames[n + 1] the frame of    *)
(* the Certificate that line 155 constructed in frames[n].                 *)
(***************************************************************************)
NoOutcome == [threw |-> FALSE, value |-> FALSE, error |-> ""]
IdleCall == [status |-> "idle", level |-> 0, frames |-> <<>>, outcome |-> NoOutcome]

\* new Certificate(response, agent), then verify() up to its first await
\* (line 127): verified and rootKey are those of a constructed instance
NewFrame(c, agent) ==
  [agent |-> agent, verified |-> FALSE, rootKey |-> <<>>,
   pc |-> "reconstructed", rootHash |-> reconstruct(c.tree),
   derKey |-> <<>>, key |-> <<>>, res |-> <<>>, err |-> ""]

AgentKey(agent) == IF agent = "injected" THEN agentRootKey ELSE DefaultAgentKey

Top(c) == calls[c].frames[calls[c].level + 1]

\* this.cert of the Certificate at nesting level n: what lines 155 and 114
\* decoded from the delegation of level n - 1
RECURSIVE CertAt(_)
CertAt(n) ==
  IF n = 0 THEN cert ELSE cborDecode(CertAt(n - 1).delegation[1].certificate)

TopCert(c) == CertAt(calls[c].level)

Init ==
  /\ cert \in Certs
  /\ agentRootKey \in RootKeyChoices
  /\ verified = FALSE
  /\ rootKey = <<>>
  /\ calls = [c \in 1..MaxCalls |-> IdleCall]
  /\ started = 0
  /\ keyChanges = 0
  /\ lastLookup = <<>>
  /\ everTrue = FALSE
  /\ lastCompleted = "none"
  /\ keysSeen = {agentRootKey}
  /\ overlapped = FALSE
  /\ TreeIdle
  /\ DerIdle

\* (faulty variant: checkState never throws)
checkState_NeverThrows(v) == FALSE

\* checkState, on an instance whose verified flag is v: TRUE when it throws
checkState(v) == ~v

\* (faulty variant: a lookup on a certificate with a delegation reads the tree of
\* the embedded certificate)
LookupResult_ReadsDelegateTree(api, path) ==
  LET tree == IF cert.delegation = <<>> THEN cert.tree ELSE CertAt(1).tree
  IN IF checkState(verified)
     THEN [api |-> api, threw |-> TRUE, value |-> <<>>]
     ELSE [api |-> api, threw |-> FALSE,
           value |-> IF api = "lookup"
                     THEN lookup_path(path, tree)
                     ELSE lookupPathEx(path, tree)]


\* lookup(path) and lookupEx(path) on the instance
LookupResult(api, path) ==
  IF checkState(verified)
  THEN [api |-> api, threw |-> TRUE, value |-> <<>>]
  ELSE [api |-> api, threw |-> FALSE,
        value |-> IF api = "lookup"
                  THEN lookup_path(path, cert.tree)
                  ELSE lookupPathEx(path, cert.tree)]

Lookup(path) ==
  /\ lastLookup' = <<LookupResult("lookup", path)>>
  /\ UNCHANGED <<agentRootKey, cert, verified, rootKey, calls, started, overlapped,
                 keyChanges,
                 everTrue, lastCompleted, keysSeen, treeVars, derVars>>

LookupEx(path) ==
  /\ lastLookup' = <<LookupResult("lookupEx", path)>>
  /\ UNCHANGED <<agentRootKey, cert, verified, rootKey, calls, started, overlapped,
                 keyChanges,
                 everTrue, lastCompleted, keysSeen, treeVars, derVars>>

\* the trust context's root key is set anew (fetchRootKey) or removed
AgentSetRootKey(k) ==
  /\ keyChanges < MaxKeyChanges
  /\ k # agentRootKey
  /\ agentRootKey' = k
  /\ keyChanges' = keyChanges + 1
  /\ keysSeen' = keysSeen \cup {k}
  /\ lastLookup' = <<>>
  /\ UNCHANGED <<cert, verified, rootKey, calls, started, overlapped, everTrue, lastCompleted,
                 treeVars, derVars>>

\* verify() is called on the instance: line 127
VerifyCall(c) ==
  /\ started < MaxVerifies
  /\ calls[c].status # "running"
  /\ \A b \in 1..(c - 1) : calls[b].status = "running"
  /\ calls' = [calls EXCEPT ![c] =
                 [status |-> "running", level |-> 0,
                  frames |-> <<NewFrame(cert, "injected")>>, outcome |-> NoOutcome]]
  /\ started' = started + 1
  /\ overlapped' = (overlapped \/ \E b \in 1..MaxCalls : calls[b].status = "running")
  /\ lastLookup' = <<>>
  /\ UNCHANGED <<agentRootKey, cert, verified, rootKey, keyChanges, everTrue,
                 lastCompleted, keysSeen, treeVars, derVars>>

\* an error leaves verify(): every frame of the call is left by it
\* (the frames 1..level + 1; a frame above them has returned)
ThrownFrames(call, error) ==
  [n \in 1..Len(call.frames) |->
     IF n <= call.level + 1
     THEN [call.frames[n] EXCEPT !.pc = "threw", !.err = error]
     ELSE call.frames[n]]

\* (faulty variant: the error is swallowed and the promise of verify() stays
\* pending)
Thrown_StaysPending(call, error) ==
  [call EXCEPT !.frames = ThrownFrames(call, error)]


Thrown(call, error) ==
  [call EXCEPT !.status = "done", !.level = 0,
               !.frames = ThrownFrames(call, error),
               !.outcome = [threw |-> TRUE, value |-> FALSE, error |-> error]]

\* (faulty variant: with no root key configured, the key of getDefaultAgent() is
\* taken instead of throwing)
RootKeyResolution_DefaultFallback(cached, agentKey) ==
  IF cached = <<>>
  THEN IF agentKey # <<>>
       THEN [threw |-> FALSE, derKey |-> agentKey, rootKey |-> agentKey]
       ELSE [threw |-> FALSE, derKey |-> DefaultAgentKey, rootKey |-> cached]
  ELSE [threw |-> FALSE, derKey |-> cached, rootKey |-> cached]

\* (faulty variant: the cached key is overwritten by the agent's key whenever the
\* agent has one)
RootKeyResolution_Overwrites(cached, agentKey) ==
  IF agentKey # <<>>
  THEN [threw |-> FALSE, derKey |-> agentKey, rootKey |-> agentKey]
  ELSE IF cached = <<>>
  THEN [threw |-> TRUE, derKey |-> <<>>, rootKey |-> cached]
  ELSE [threw |-> FALSE, derKey |-> cached, rootKey |-> cached]

\* _checkDelegation(undefined), lines 144..154, on an instance whose _rootKey is
\* cached and whose agent's rootKey is agentKey
\* [threw, derKey, rootKey]: the outcome and this._rootKey afterwards
RootKeyResolution(cached, agentKey) ==
  IF cached = <<>>
  THEN IF agentKey # <<>>
       THEN [threw |-> FALSE, derKey |-> agentKey, rootKey |-> agentKey]
       ELSE [threw |-> TRUE, derKey |-> <<>>, rootKey |-> cached]
  ELSE [threw |-> FALSE, derKey |-> cached, rootKey |-> cached]

\* line 128 with no delegation
CheckDelegationRoot(c) ==
  /\ calls[c].status = "running"
  /\ Top(c).pc = "reconstructed"
  /\ TopCert(c).delegation = <<>>
  /\ LET lv == calls[c].level
         r == RootKeyResolution(IF lv = 0 THEN rootKey ELSE Top(c).rootKey,
                                AgentKey(Top(c).agent))
     IN /\ rootKey' = IF lv = 0 THEN r.rootKey ELSE rootKey
        /\ IF r.threw
           THEN /\ calls' = [calls EXCEPT ![c] = Thrown(calls[c], "MissingRootKey")]
                /\ lastCompleted' = "threw"
           ELSE /\ calls' = [calls EXCEPT ![c].frames[lv + 1] =
                               [@ EXCEPT !.pc = "resolved", !.derKey = r.derKey,
                                         !.rootKey = IF lv = 0 THEN <<>> ELSE r.rootKey]]
                /\ UNCHANGED lastCompleted
  /\ lastLookup' = <<>>
  /\ UNCHANGED <<agentRootKey, cert, verified, started, overlapped, keyChanges, everTrue,
                 keysSeen, treeVars, derVars>>

\* line 128 with a delegation: lines 155..156, the nested verify() up to line 127
\* (faulty variant: the nested Certificate is constructed without the agent, and
\* takes getDefaultAgent())
DelegateAgent_Default(agent) == "default"

\* line 155: the agent the nested Certificate is bound to
DelegateAgent(agent) == agent

CheckDelegationNested(c) ==
  /\ calls[c].status = "running"
  /\ Top(c).pc = "reconstructed"
  /\ TopCert(c).delegation # <<>>
  /\ LET lv == calls[c].level
         d == TopCert(c).delegation[1]
     IN calls' = [calls EXCEPT
                    ![c].frames = Append([@ EXCEPT ![lv + 1].pc = "delegating"],
                                         NewFrame(cborDecode(d.certificate),
                                                  DelegateAgent(Top(c).agent))),
                    ![c].level = lv + 1]
  /\ lastLookup' = <<>>
  /\ UNCHANGED <<agentRootKey, cert, verified, rootKey, started, overlapped, keyChanges,
                 everTrue, lastCompleted, keysSeen, treeVars, derVars>>

\* (faulty variant: on an instance that is verified already, the signature check
\* is skipped and taken as passed)
SignatureCheck_SkipsWhenVerified(derKey, sig, rootHash) ==
  IF verified
  THEN [threw |-> FALSE, key |-> <<>>, res |-> <<TRUE>>]
  ELSE LET e == extractDER(derKey)
       IN IF e.ok
          THEN [threw |-> FALSE, key |-> <<e.value>>,
                res |-> <<blsVerify(e.value, sig, StateRootMsg(rootHash))>>]
          ELSE [threw |-> TRUE, key |-> <<>>, res |-> <<>>]


\* lines 129..132: [threw, key, res], res the promise blsVerify returns
\* (e and msg are bound as values, so that each is evaluated once)
SignatureCheck(derKey, sig, rootHash) ==
  CHOOSE r \in {IF e.ok
                THEN [threw |-> FALSE, key |-> <<e.value>>,
                      res |-> <<blsVerify(e.value, sig, msg)>>]
                ELSE [threw |-> TRUE, key |-> <<>>, res |-> <<>>] :
                e \in {extractDER(derKey)}, msg \in {StateRootMsg(rootHash)}} : TRUE

VerifySignature(c) ==
  /\ calls[c].status = "running"
  /\ Top(c).pc = "resolved"
  /\ LET lv == calls[c].level
         r == SignatureCheck(Top(c).derKey[1], TopCert(c).signature, Top(c).rootHash)
     IN IF r.threw
        THEN /\ calls' = [calls EXCEPT ![c] = Thrown(calls[c], "MalformedPublicKey")]
             /\ lastCompleted' = "threw"
        ELSE /\ calls' = [calls EXCEPT ![c].frames[lv + 1] =
                            [@ EXCEPT !.pc = "bls", !.key = r.key, !.res = r.res]]
             /\ UNCHANGED lastCompleted
  /\ lastLookup' = <<>>
  /\ UNCHANGED <<agentRootKey, cert, verified, rootKey, started, overlapped, keyChanges,
                 everTrue, keysSeen, treeVars, derVars>>

\* (faulty variant: the flag is set whatever the signature check returned)
VerifiedAfter_AlwaysTrue(old, res) == TRUE

\* (faulty variant: the flag is set to the opposite of the check's result)
VerifiedAfter_Negated(old, res) == ~res


\* line 133: this.verified = res
VerifiedAfter(old, res) == res

\* lines 133..134 once the promise of line 132 is settled
BlsComplete(c) ==
  /\ calls[c].status = "running"
  /\ Top(c).pc = "bls"
  /\ LET lv == calls[c].level
         res == Top(c).res[1]
     IN IF lv = 0
        THEN /\ verified' = VerifiedAfter(verified, res)
             /\ calls' = [calls EXCEPT
                            ![c].frames[1].pc = "returned",
                            ![c].status = "done",
                            ![c].outcome = [threw |-> FALSE, value |-> res, error |-> ""]]
             /\ everTrue' = (everTrue \/ res)
             /\ lastCompleted' = IF res THEN "true" ELSE "false"
        ELSE /\ calls' = [calls EXCEPT ![c].frames[lv + 1] =
                            [@ EXCEPT !.pc = "returned",
                                      !.verified = VerifiedAfter(@.verified, res)]]
             /\ UNCHANGED <<verified, everTrue, lastCompleted>>
  /\ lastLookup' = <<>>
  /\ UNCHANGED <<agentRootKey, cert, rootKey, started, overlapped, keyChanges, keysSeen,
                 treeVars, derVars>>

\* (faulty variant: a delegate that did not verify is replaced by the root key)
DelegationKey_RootFallback(res, nestedVerified, nestedTree, d) ==
  IF ~res
  THEN [threw |-> FALSE, error |-> "", derKey |-> <<DerOf(RootRaw)>>]
  ELSE LET lookup == lookupPathEx(<<<<"string", TEXT_SUBNET>>,
                                    <<"buffer", d.subnet_id>>,
                                    <<"string", TEXT_PUBLIC_KEY>>>>, nestedTree)
       IN IF ~IsDefined(lookup)
          THEN [threw |-> TRUE, error |-> "SubnetKeyNotFound", derKey |-> <<>>]
          ELSE [threw |-> FALSE, error |-> "", derKey |-> lookup]

\* (faulty variant: a subnet key that is not found is taken as an empty key
\* instead of throwing)
DelegationKey_NotFoundIsEmptyKey(res, nestedVerified, nestedTree, d) ==
  IF ~res
  THEN [threw |-> TRUE, error |-> "DelegationVerificationFailed", derKey |-> <<>>]
  ELSE IF checkState(nestedVerified)
  THEN [threw |-> TRUE, error |-> "UnverifiedCertificateError", derKey |-> <<>>]
  ELSE LET lookup == lookupPathEx(<<<<"string", TEXT_SUBNET>>,
                                    <<"buffer", d.subnet_id>>,
                                    <<"string", TEXT_PUBLIC_KEY>>>>, nestedTree)
       IN IF ~IsDefined(lookup)
          THEN [threw |-> FALSE, error |-> "", derKey |-> <<<<>>>>]
          ELSE [threw |-> FALSE, error |-> "", derKey |-> lookup]


\* lines 156..164 once the nested verify() resolved to res, on the nested
\* instance (its verified flag and tree) and the delegation d: [threw, error, derKey]
DelegationKey(res, nestedVerified, nestedTree, d) ==
  IF ~res
  THEN [threw |-> TRUE, error |-> "DelegationVerificationFailed", derKey |-> <<>>]
  ELSE IF checkState(nestedVerified)
  THEN [threw |-> TRUE, error |-> "UnverifiedCertificateError", derKey |-> <<>>]
  ELSE LET lookup == lookupPathEx(<<<<"string", TEXT_SUBNET>>,
                                    <<"buffer", d.subnet_id>>,
                                    <<"string", TEXT_PUBLIC_KEY>>>>, nestedTree)
       IN IF ~IsDefined(lookup)
          THEN [threw |-> TRUE, error |-> "SubnetKeyNotFound", derKey |-> <<>>]
          ELSE [threw |-> FALSE, error |-> "", derKey |-> lookup]

DelegationReturn(c) ==
  /\ calls[c].status = "running"
  /\ calls[c].level > 0
  /\ Top(c).pc = "returned"
  /\ LET lv == calls[c].level
         r == DelegationKey(Top(c).res[1], Top(c).verified, TopCert(c).tree,
                            CertAt(lv - 1).delegation[1])
         back == [calls[c] EXCEPT !.level = lv - 1]
     IN IF r.threw
        THEN /\ calls' = [calls EXCEPT ![c] = Thrown(back, r.error)]
             /\ lastCompleted' = "threw"
        ELSE /\ calls' = [calls EXCEPT ![c] =
                            [back EXCEPT !.frames[lv] =
                               [@ EXCEPT !.pc = "resolved", !.derKey = r.derKey]]]
             /\ UNCHANGED lastCompleted
  /\ lastLookup' = <<>>
  /\ UNCHANGED <<agentRootKey, cert, verified, rootKey, started, overlapped, keyChanges,
                 everTrue, keysSeen, treeVars, derVars>>

TimePath == <<TEXT_TIME>>
SubnetKeyPathEx ==
  <<<<"string", TEXT_SUBNET>>, <<"buffer", SubnetId(0)>>, <<"string", TEXT_PUBLIC_KEY>>>>

Next ==
  \/ \E c \in 1..MaxCalls : VerifyCall(c)
  \/ \E c \in 1..MaxCalls : CheckDelegationRoot(c)
  \/ \E c \in 1..MaxCalls : CheckDelegationNested(c)
  \/ \E c \in 1..MaxCalls : VerifySignature(c)
  \/ \E c \in 1..MaxCalls : BlsComplete(c)
  \/ \E c \in 1..MaxCalls : DelegationReturn(c)
  \/ Lookup(TimePath)
  \/ LookupEx(SubnetKeyPathEx)
  \/ \E k \in RootKeyChoices : AgentSetRootKey(k)

Spec == Init /\ [][Next]_vars

(***************************************************************************)
(* Properties of the Certificate instance (Spec).                          *)
(***************************************************************************)
Running(c) == calls[c].status = "running"
ResolvedTrue(c) ==
  calls[c].status = "done" /\ ~calls[c].outcome.threw /\ calls[c].outcome.value
LookedUp == lastLookup # <<>>

\* C1: while no verify() call on the instance has resolved to true, every
\* lookup and lookupEx call throws UnverifiedCertificateError and returns no data,
\* in the state after construction and after verify() calls that resolved to
\* false or threw.
C1_UnverifiedLookupFails ==
  ~everTrue => (LookedUp => lastLookup[1].threw /\ lastLookup[1].value = <<>>)

\* C1 witness: a lookup that threw, made after a verify() call resolved to false
C1_Witness ==
  /\ ~everTrue
  /\ lastCompleted = "false"
  /\ LookedUp
  /\ lastLookup[1].threw

\* the path _checkDelegation looks up in the delegate of the certificate at level n
SubnetKeyPath(n) ==
  <<TEXT_SUBNET, CertAt(n).delegation[1].subnet_id, TEXT_PUBLIC_KEY>>

\* C2: chain of trust.  A verify() call resolves to true only if it made a
\* signature check for every certificate of the chain and each returned true;
\* the innermost certificate's key is a root key of the trust context, every
\* other certificate's key is the one read at ["subnet", subnet_id,
\* "public_key"] from the tree of its delegate, which had verified to true; and
\* every nested certificate is bound to the trust context of the outermost.
C2_ChainOfTrust ==
  \A c \in 1..MaxCalls :
    ResolvedTrue(c) =>
      LET fs == calls[c].frames
      IN /\ Len(fs) = ChainDepth(cert) + 1
         /\ \A n \in 1..Len(fs) :
              /\ fs[n].agent = "injected"
              /\ fs[n].res = <<TRUE>>
              /\ fs[n].derKey # <<>>
              /\ extractDER(fs[n].derKey[1]).ok
              /\ fs[n].key = <<extractDER(fs[n].derKey[1]).value>>
              /\ core_verify(CertAt(n - 1).signature,
                             StateRootMsg(reconstruct(CertAt(n - 1).tree)),
                             fs[n].key[1]) = BLS_OK
              /\ IF n = Len(fs)
                 THEN fs[n].derKey \in keysSeen
                 ELSE /\ fs[n].derKey = lookup_path(SubnetKeyPath(n - 1), CertAt(n).tree)
                      /\ fs[n + 1].verified

\* C2 witness: a chain of two delegations verified to true
C2_Witness ==
  \E c \in 1..MaxCalls : ResolvedTrue(c) /\ Len(calls[c].frames) = 3

\* C3: when the embedded certificate's verify() resolved to false or threw,
\* the outer verify() throws: its frame never gets a key, makes no signature
\* check, and the call never resolves to true.
C3_FailedDelegationFails ==
  \A c \in 1..MaxCalls :
    \A n \in 2..Len(calls[c].frames) :
      LET nested == calls[c].frames[n]
          parent == calls[c].frames[n - 1]
      IN (nested.pc = "threw" \/ (nested.pc = "returned" /\ nested.res = <<FALSE>>)) =>
           /\ parent.pc \in {"delegating", "threw"}
           /\ parent.derKey = <<>>
           /\ parent.key = <<>>
           /\ parent.res = <<>>
           /\ (parent.pc = "threw") = (calls[c].status = "done")
           /\ calls[c].status = "done" =>
                /\ calls[c].outcome.threw
                /\ nested.pc = "returned" =>
                     calls[c].outcome.error = "DelegationVerificationFailed"
                /\ nested.pc = "threw" => calls[c].outcome.error = nested.err

\* C3 witness: the delegate's signature check returned false, the delegate's
\* delegator was signed by the root key, and the outer verify() threw
C3_Witness ==
  \E c \in 1..MaxCalls :
    /\ calls[c].status = "done"
    /\ Len(calls[c].frames) = 2
    /\ calls[c].frames[2].res = <<FALSE>>
    /\ calls[c].outcome.error = "DelegationVerificationFailed"
    /\ agentRootKey = <<DerOf(RootRaw)>>
    /\ cert.signature.signer = RootRaw

\* C4: a verify() call that throws leaves the certificate not verified, so that
\* lookups throw until a later verify() resolves to true, also when an earlier
\* verify() had resolved to true.  (Stated for verify() calls made one after
\* the other: no call was made while another was running.)
C4_AbortLeavesFailed ==
  (~overlapped /\ lastCompleted = "threw") =>
    /\ ~verified
    /\ LookedUp => lastLookup[1].threw

\* C5: when the signature check returns false, verify() resolves to false
\* and does not throw, and lookups throw afterwards; when it returns true,
\* verify() resolves to true and lookups are answered.
C5_SignatureOutcome ==
  /\ lastCompleted = "false" => ~verified
  /\ lastCompleted = "true" => verified
  /\ \A c \in 1..MaxCalls :
       (calls[c].status = "done" /\ calls[c].frames[1].res # <<>>) =>
         /\ ~calls[c].outcome.threw
         /\ calls[c].outcome.value = calls[c].frames[1].res[1]
         /\ calls[c].outcome.value =
              (core_verify(cert.signature, StateRootMsg(reconstruct(cert.tree)),
                           calls[c].frames[1].key[1]) = BLS_OK)
  /\ (LookedUp /\ lastCompleted = "false") => lastLookup[1].threw
  /\ (LookedUp /\ lastCompleted = "true") =>
       /\ ~lastLookup[1].threw
       /\ lastLookup[1].value = lookup_path(IF lastLookup[1].api = "lookup"
                                            THEN TimePath
                                            ELSE <<TEXT_SUBNET, SubnetId(0), TEXT_PUBLIC_KEY>>,
                                            cert.tree)

\* C5 witness: the signature check returned false, verify() resolved to false,
\* and a lookup threw
C5_Witness ==
  /\ lastCompleted = "false"
  /\ \E c \in 1..MaxCalls :
       /\ calls[c].status = "done"
       /\ calls[c].frames[1].res = <<FALSE>>
       /\ ~calls[c].outcome.threw
  /\ LookedUp
  /\ lastLookup[1].threw

\* C6 as claimed: while a verify() call on the instance is in flight, a
\* first one or a repeated one, lookup and lookupEx throw.  (Stated for
\* verify() calls made one after the other.)
C6_NoLookupDuringVerify ==
  (~overlapped /\ LookedUp /\ \E c \in 1..MaxCalls : Running(c)) =>
    lastLookup[1].threw

\* C6 as amended: while a verify() call is in flight and no verify() call on the
\* instance has resolved to true yet, lookup and lookupEx throw; and a lookup
\* returns data only after some verify() call has resolved to true.
C6_NoLookupBeforeFirstSuccess ==
  LookedUp =>
    /\ ((\E c \in 1..MaxCalls : Running(c)) /\ ~everTrue) => lastLookup[1].threw
    /\ ~lastLookup[1].threw => everTrue

\* C6 witness: a lookup threw while the first signature check was pending
C6_Witness ==
  /\ LookedUp
  /\ lastLookup[1].threw
  /\ ~everTrue
  /\ \E c \in 1..MaxCalls :
       Running(c) /\ calls[c].level = 0 /\ calls[c].frames[1].pc = "bls"
                  /\ calls[c].frames[1].res = <<TRUE>>

(***************************************************************************)
(* Key resolution (Spec).                                                  *)
(***************************************************************************)
\* call c is about to run _checkDelegation(undefined) in its innermost frame
AtRootResolution(c) ==
  /\ Running(c)
  /\ Top(c).pc = "reconstructed"
  /\ TopCert(c).delegation = <<>>

\* this._rootKey of the instance of call c's innermost frame
CachedKey(c) == IF calls[c].level = 0 THEN rootKey ELSE Top(c).rootKey

\* C11: for a certificate without a delegation and with no key cached on the
\* instance, key resolution gives the root key the trust context holds at that
\* moment; when it holds none, verify() throws MissingRootKey, no frame of the
\* call has made a signature check, and the certificate is not verified afterwards.
C11_RootKeyResolution ==
  [][\A c \in 1..MaxCalls :
       (AtRootResolution(c) /\ CachedKey(c) = <<>> /\ calls'[c] # calls[c]) =>
         LET lv == calls[c].level
             after == calls'[c].frames[lv + 1]
         IN IF agentRootKey # <<>>
            THEN /\ calls'[c].status = "running"
                 /\ after.pc = "resolved"
                 /\ after.derKey = agentRootKey
            ELSE /\ calls'[c].status = "done"
                 /\ calls'[c].outcome.threw
                 /\ calls'[c].outcome.error = "MissingRootKey"
                 /\ \A n \in 1..(lv + 1) :
                      /\ calls'[c].frames[n].pc = "threw"
                      /\ calls'[c].frames[n].key = <<>>
                      /\ calls'[c].frames[n].res = <<>>
                 /\ ~after.verified
                 /\ lv = 0 => (~verified' /\ rootKey' = <<>>)]_vars

\* C11 witness: verify() of a certificate without a delegation threw
\* MissingRootKey, and a lookup made afterwards threw
C11_Witness ==
  /\ cert.delegation = <<>>
  /\ agentRootKey = <<>>
  /\ rootKey = <<>>
  /\ \E c \in 1..MaxCalls :
       /\ calls[c].status = "done"
       /\ calls[c].outcome.threw
       /\ calls[c].outcome.error = "MissingRootKey"
       /\ calls[c].frames[1].res = <<>>
  /\ ~verified
  /\ LookedUp
  /\ lastLookup[1].threw


\* C12: when the embedded certificate verified to true and the lookup of
\* ["subnet", subnet_id, "public_key"] in its tree gives not found (the label
\* absent, the path ending on a node that is no Leaf, or the path running into
\* a Pruned node), the outer verify() throws SubnetKeyNotFound: the outer frame
\* gets no key and makes no signature check, and the certificate is not
\* verified.  A frame has a key from a delegate only when that delegate's
\* verified flag is set, and the lookup in the delegate never throws.
C12_SubnetKeyNotFound ==
  \A c \in 1..MaxCalls :
    /\ calls[c].outcome.error # "UnverifiedCertificateError"
    /\ \A n \in 2..Len(calls[c].frames) :
         LET nested == calls[c].frames[n]
             parent == calls[c].frames[n - 1]
             found == lookup_path(SubnetKeyPath(n - 2), CertAt(n - 1).tree)
         IN /\ (nested.pc = "returned" /\ nested.res = <<TRUE>> /\ ~IsDefined(found)) =>
                 /\ parent.pc \in {"delegating", "threw"}
                 /\ parent.derKey = <<>>
                 /\ parent.key = <<>>
                 /\ parent.res = <<>>
                 /\ ~parent.verified
                 /\ (parent.pc = "threw") = (calls[c].status = "done")
                 /\ calls[c].status = "done" =>
                      /\ calls[c].outcome.threw
                      /\ calls[c].outcome.error = "SubnetKeyNotFound"
                 /\ n = 2 => ~verified
            /\ parent.derKey # <<>> =>
                 /\ nested.pc = "returned"
                 /\ nested.res = <<TRUE>>
                 /\ nested.verified
                 /\ parent.derKey = found

\* C12 witness: the delegate verified to true, the subnet's entry in its tree
\* is a Pruned node, and the outer verify() threw SubnetKeyNotFound
C12_Witness ==
  \E c \in 1..MaxCalls :
    /\ calls[c].status = "done"
    /\ calls[c].outcome.error = "SubnetKeyNotFound"
    /\ Len(calls[c].frames) = 2
    /\ calls[c].frames[2].verified
    /\ CertAt(1).tree = CertTree("pruned", 1)
    /\ ~verified


\* C13: the key cached on the instance is write-once.  Once this._rootKey is
\* set no step changes it, and a verify() call of a certificate without a
\* delegation that finds it set resolves to it, whatever root key the trust
\* context holds by then (another one, or none).
C13_CacheWriteOnce ==
  [][/\ rootKey # <<>> => rootKey' = rootKey
     /\ \A c \in 1..MaxCalls :
          (/\ AtRootResolution(c)
           /\ calls[c].level = 0
           /\ rootKey # <<>>
           /\ calls'[c] # calls[c]) =>
            /\ calls'[c].status = "running"
            /\ calls'[c].frames[1].pc = "resolved"
            /\ calls'[c].frames[1].derKey = rootKey]_vars

\* C13 witness: the trust context's root key was removed after a first
\* verify() had cached it, and a second verify() has resolved to the cached key
C13_Witness ==
  /\ cert.delegation = <<>>
  /\ ~overlapped
  /\ started = 2
  /\ keyChanges = 1
  /\ agentRootKey = <<>>
  /\ rootKey = <<DerOf(RootRaw)>>
  /\ \E c \in 1..MaxCalls :
       /\ Running(c)
       /\ calls[c].frames[1].pc = "resolved"
       /\ calls[c].frames[1].derKey = rootKey


(***************************************************************************)
(* Repeated and overlapping verify() calls (Spec).                         *)
(***************************************************************************)
\* call c returns from verify() with a boolean in this step
Resolves(c) ==
  /\ Running(c)
  /\ calls'[c].status = "done"
  /\ ~calls'[c].outcome.threw

\* C14: every verify() call runs the whole protocol.  A call starts with a
\* fresh frame whatever earlier calls gave; each frame holds the digest of
\* its own certificate's tree; a call that resolved has a frame, a resolved
\* key and a signature check of its own for every certificate of the chain,
\* and its value is the result of its own outermost check; and the verified
\* flag changes only in the step in which a call resolves, to that value.
C14_FullProtocolEachCall ==
  /\ [](\A c \in 1..MaxCalls :
          /\ \A n \in 1..Len(calls[c].frames) :
               calls[c].frames[n].rootHash = reconstruct(CertAt(n - 1).tree)
          /\ (calls[c].status = "done" /\ ~calls[c].outcome.threw) =>
               /\ Len(calls[c].frames) = ChainDepth(cert) + 1
               /\ \A n \in 1..Len(calls[c].frames) :
                    LET f == calls[c].frames[n]
                    IN /\ f.pc = "returned"
                       /\ f.derKey # <<>>
                       /\ f.key # <<>>
                       /\ f.res # <<>>
                       /\ f.res[1] =
                            (core_verify(CertAt(n - 1).signature,
                                         StateRootMsg(reconstruct(CertAt(n - 1).tree)),
                                         f.key[1]) = BLS_OK)
               /\ calls[c].outcome.value = calls[c].frames[1].res[1])
  /\ [][/\ \A c \in 1..MaxCalls :
             /\ (~Running(c) /\ calls'[c].status = "running") =>
                  /\ Len(calls'[c].frames) = 1
                  /\ calls'[c].frames[1].pc = "reconstructed"
                  /\ calls'[c].frames[1].derKey = <<>>
                  /\ calls'[c].frames[1].key = <<>>
                  /\ calls'[c].frames[1].res = <<>>
             /\ Resolves(c) => verified' = calls'[c].outcome.value
        /\ verified' # verified => \E c \in 1..MaxCalls : Resolves(c)]_vars

\* C14 witness: a second verify() call, made after the first had ended, has
\* resolved to true on a chain of one delegation, with two checks of its own
C14_Witness ==
  /\ started = 2
  /\ ~overlapped
  /\ calls[2].status = "idle"
  /\ ResolvedTrue(1)
  /\ Len(calls[1].frames) = 2
  /\ calls[1].frames[2].res = <<TRUE>>
  /\ calls[1].frames[1].res = <<TRUE>>
  /\ verified


\* the key line 128 resolves for the instance: the cached root key, or the
\* subnet key read from the embedded certificate's tree (<<>> when there is none)
InstanceDerKey ==
  IF cert.delegation = <<>>
  THEN rootKey
  ELSE lookup_path(SubnetKeyPath(0), CertAt(1).tree)

\* a signature check over the digest of the instance's own tree, with the key
\* resolved for the instance, returns true
GenuineCheck ==
  /\ InstanceDerKey # <<>>
  /\ WellFormedDer(InstanceDerKey[1])
  /\ core_verify(cert.signature, StateRootMsg(reconstruct(cert.tree)),
                 SubSeq(InstanceDerKey[1], Len(DER_PREFIX) + 1,
                        Len(InstanceDerKey[1]))) = BLS_OK

\* C15: no step changes the decoded payload; a lookup or lookupEx step changes
\* neither the verified flag nor the cached key nor any verify() call; the
\* verified flag changes only in a step of a verify() call.  So a lookup that
\* is answered reads the tree whose digest passed the signature check.
C15_PayloadImmutable ==
  /\ [][/\ cert' = cert
        /\ lastLookup' # <<>> =>
             /\ verified' = verified
             /\ rootKey' = rootKey
             /\ calls' = calls
             /\ agentRootKey' = agentRootKey
        /\ verified' # verified =>
             \E c \in 1..MaxCalls : Running(c) /\ calls'[c] # calls[c]]_vars
  /\ []((LookedUp /\ ~lastLookup[1].threw) =>
          /\ GenuineCheck
          /\ lastLookup[1].value =
               lookup_path(IF lastLookup[1].api = "lookup"
                           THEN TimePath
                           ELSE <<TEXT_SUBNET, SubnetId(0), TEXT_PUBLIC_KEY>>,
                           cert.tree))

\* C15 witness: a lookup on a verified certificate with a delegation returned
\* the time its own tree holds
C15_Witness ==
  /\ LookedUp
  /\ ~lastLookup[1].threw
  /\ lastLookup[1].api = "lookup"
  /\ lastLookup[1].value = <<<<0>>>>
  /\ cert.delegation # <<>>
  /\ verified


(***************************************************************************)
(* Lookup over partial trees (TreeSpec).                                   *)
(***************************************************************************)
\* <<>>, or <<pos>> with pos the position of the node the labels of path lead to
RECURSIVE TargetPos(_, _)
TargetPos(path, t) ==
  IF Len(path) = 0
  THEN <<<<>>>>
  ELSE LET f == FirstLabeled(path[1], t)
       IN IF f = <<>>
          THEN <<>>
          ELSE LET r == TargetPos(Tail(path), SubtreeAt(t, f[1])[3])
               IN IF r = <<>> THEN <<>> ELSE <<f[1] \o <<3>> \o r[1]>>

\* the Leaf that path reaches in tOrig is a Leaf of tCur still: no subtree
\* that holds it was replaced
LeafKept(path) ==
  LET tp == TargetPos(path, tOrig)
  IN /\ tp # <<>>
     /\ tp[1] \in Positions(tCur)
     /\ SubtreeAt(tCur, tp[1])[1] = NodeLeaf

\* C16: when lookup_path(p, T) gives a value v and T' comes from T by replacing
\* subtrees that do not hold the Leaf reached by Pruned nodes carrying their
\* digests, lookup_path(p, T') = v and reconstruct(T') = reconstruct(T).
C16_LookupStableOffPath ==
  \A p \in Paths :
    (IsDefined(lookup_path(p, tOrig)) /\ LeafKept(p)) =>
      /\ lookup_path(p, tCur) = lookup_path(p, tOrig)
      /\ reconstruct(tCur) = reconstruct(tOrig)

\* C16 witness: the Labeled node left of the one the path goes through was
\* pruned, and a path of two labels still gives the value it gave
C16_Witness ==
  /\ tOrig[1] = NodeFork
  /\ tOrig[2][1] = NodeLabeled
  /\ tCur[1] = NodeFork
  /\ tCur[2][1] = NodePruned
  /\ Len(tPath) = 2
  /\ tResult # <<>>
  /\ IsDefined(tResult[1])
  /\ tResult[1] = lookup_path(tPath, tOrig)
  /\ LeafKept(tPath)


\* the positions at which a flattened fork level starts: the root, and the
\* subtree of every Labeled node
LevelRoots(t) ==
  {<<>>} \cup {pos \o <<3>> : pos \in {q \in Positions(t) : SubtreeAt(t, q)[1] = NodeLabeled}}

\* no two Labeled nodes of one flattened fork level carry the same label
UniqueLabels(t) ==
  \A r \in LevelRoots(t) :
    LET s == SubtreeAt(t, r)
    IN \A p, q \in SpinePositions(s) :
         (/\ p # q
          /\ SubtreeAt(s, p)[1] = NodeLabeled
          /\ SubtreeAt(s, q)[1] = NodeLabeled) =>
           SubtreeAt(s, p)[2] # SubtreeAt(s, q)[2]

\* C20: for a tree T whose flattened fork levels hold no label twice, every
\* tree T' made from T by replacing subtrees by Pruned nodes and every path p,
\* lookup_path(p, T') is not found or equals lookup_path(p, T).
C20_PruningInventsNothing ==
  UniqueLabels(tOrig) =>
    \A p \in Paths :
      \/ lookup_path(p, tCur) = Undefined
      \/ lookup_path(p, tCur) = lookup_path(p, tOrig)

\* C20 witness: a tree with both labels on one level, no label twice; the
\* Leaf a path reached was pruned and the path is not found any more
C20_Witness ==
  /\ UniqueLabels(tOrig)
  /\ tOrig[1] = NodeFork
  /\ tOrig[2][1] = NodeLabeled
  /\ tOrig[3][1] = NodeLabeled
  /\ tOrig[2][2] = LabelB
  /\ tOrig[3][2] = LabelA
  /\ tCur # tOrig
  /\ tResult = <<Undefined>>
  /\ tPath = <<LabelA>>
  /\ IsDefined(lookup_path(tPath, tOrig))


\* C18: in every reachable state, with verify() calls overlapping at their
\* awaits and completing in any order, the verified flag is set only if the
\* signature check over the digest of the instance's own tree with the key
\* resolved for the instance returns true; every call that resolves writes the
\* result of its own check, and the flag changes in no other step: it holds
\* the result of the call that resolved last.
C18_OverlapLastWriter ==
  /\ [](verified => GenuineCheck)
  /\ [][/\ \A c \in 1..MaxCalls :
             Resolves(c) =>
               /\ calls[c].level = 0
               /\ calls[c].frames[1].pc = "bls"
               /\ calls[c].frames[1].rootHash = reconstruct(cert.tree)
               /\ calls[c].frames[1].derKey = InstanceDerKey
               /\ verified' = calls[c].frames[1].res[1]
        /\ (\A c \in 1..MaxCalls : ~Resolves(c)) => verified' = verified]_vars

\* C18 witness: two verify() calls overlapped, both have resolved to true and
\* the certificate is verified
C18_Witness ==
  /\ overlapped
  /\ ResolvedTrue(1)
  /\ ResolvedTrue(2)
  /\ Len(calls[1].frames) = 2
  /\ Len(calls[2].frames) = 2
  /\ verified


\* C19: every key handed to blsVerify is the result of extractDER on the
\* resolved key: the 96 bytes after the DER prefix, for a subnet key read
\* from a delegate and for the trust context's root key alike.  A resolved
\* key that is not the prefix followed by 96 bytes makes verify() throw
\* MalformedPublicKey with no signature check made.
C19_KeysThroughExtractDER ==
  \A c \in 1..MaxCalls :
    \A n \in 1..Len(calls[c].frames) :
      LET f == calls[c].frames[n]
      IN /\ f.res # <<>> => f.key # <<>>
         /\ f.key # <<>> =>
              /\ f.derKey # <<>>
              /\ WellFormedDer(f.derKey[1])
              /\ Len(f.key[1]) = KEY_LENGTH
              /\ f.key[1] = SubSeq(f.derKey[1], Len(DER_PREFIX) + 1, Len(f.derKey[1]))
         /\ (f.derKey # <<>> /\ CertAt(n - 1).delegation = <<>>) =>
              f.derKey \in keysSeen
         /\ (f.derKey # <<>> /\ ~WellFormedDer(f.derKey[1])) =>
              /\ f.pc \in {"resolved", "threw"}
              /\ f.key = <<>>
              /\ f.res = <<>>
              /\ f.pc = "threw" =>
                   /\ f.err = "MalformedPublicKey"
                   /\ calls[c].status = "done"
                   /\ calls[c].outcome.threw
                   /\ calls[c].outcome.error = "MalformedPublicKey"

\* C19 witness: the trust context's root key lacks a byte, and verify() of a
\* certificate without a delegation threw MalformedPublicKey
C19_Witness ==
  /\ cert.delegation = <<>>
  /\ rootKey = <<Tail(DerOf(RootRaw))>>
  /\ \E c \in 1..MaxCalls :
       /\ calls[c].status = "done"
       /\ calls[c].outcome.error = "MalformedPublicKey"
       /\ calls[c].frames[1].derKey = rootKey
       /\ calls[c].frames[1].res = <<>>
  /\ ~verified


(***************************************************************************)
(* Termination (LiveSpec).  A verify() call that can take a step takes it: *)
(* the continuation of a settled promise is run by the event loop, and the *)
(* promise of the external signature check is taken to settle.             *)
(***************************************************************************)
VerifyStep(c) ==
  \/ CheckDelegationRoot(c)
  \/ CheckDelegationNested(c)
  \/ VerifySignature(c)
  \/ BlsComplete(c)
  \/ DelegationReturn(c)

\* the certificate at level n of a chain of d delegations whose trees hold
\* their subnet keys and whose signatures are good, but for the tampered
\* signature of the certificate at level bad (none when bad = -1)
RECURSIVE LiveChain(_, _, _)
LiveChain(n, d, bad) ==
  [tree |-> CertTree("good", n),
   signature |-> MakeSignature(IF n = bad THEN "tampered" ELSE "good",
                               IF n = d THEN RootRaw ELSE SubnetRaw(n + 1),
                               CertTree("good", n)),
   delegation |-> IF n = d
                  THEN <<>>
                  ELSE <<[subnet_id |-> SubnetId(n + 1),
                          certificate |-> cborEncode(LiveChain(n + 1, d, bad))]>>]

\* the chains of good certificates, and those in which the certificate that
\* delegates to the innermost one has a tampered signature
LiveCerts == UNION {{LiveChain(0, d, -1), LiveChain(0, d, d - 1)} : d \in 0..MaxChain}

\* the trust context starts with the root key or with none (a malformed one
\* comes by AgentSetRootKey)
LiveInit ==
  /\ Init
  /\ cert \in LiveCerts
  /\ agentRootKey \in {<<>>, <<DerOf(RootRaw)>>}

LiveSpec ==
  /\ LiveInit
  /\ [][Next]_vars
  /\ \A c \in 1..MaxCalls : WF_vars(VerifyStep(c))

\* C17: on a chain of n delegations every verify() call ends, resolving to a
\* boolean or throwing.  It holds at most n + 1 frames and makes at most one
\* signature check in each; a frame's check is made only after every deeper
\* frame's check returned true (innermost first, outermost last); and once a
\* frame threw or its check returned false, no frame above it makes a check.
C17_Terminates ==
  /\ [](\A c \in 1..MaxCalls :
          LET fs == calls[c].frames
          IN /\ Len(fs) <= ChainDepth(cert) + 1
             /\ \A n \in 1..Len(fs) :
                  /\ fs[n].res # <<>> =>
                       /\ Len(fs) = ChainDepth(cert) + 1
                       /\ \A j \in (n + 1)..Len(fs) :
                            fs[j].pc = "returned" /\ fs[j].res = <<TRUE>>
                  /\ (fs[n].pc = "threw" \/ fs[n].res = <<FALSE>>) =>
                       \A j \in 1..(n - 1) : fs[j].res = <<>>
                  /\ fs[n].pc = "threw" =>
                       calls[c].status = "done" /\ calls[c].outcome.threw
             /\ calls[c].status = "done" =>
                  \/ calls[c].outcome.threw /\ calls[c].outcome.error # ""
                  \/ ~calls[c].outcome.threw /\ fs[1].pc = "returned")
  /\ [][\A c \in 1..MaxCalls :
          \A n \in 1..Len(calls[c].frames) :
            (calls[c].frames[n].res # <<>> /\ ~(~Running(c) /\ calls'[c].status = "running")) =>
              /\ Len(calls'[c].frames) >= n
              /\ calls'[c].frames[n].res = calls[c].frames[n].res]_vars
  /\ \A c \in 1..MaxCalls : Running(c) ~> ~Running(c)

\* C17 witness: on a chain of two delegations the innermost check returned
\* true and the second one false; the call has thrown with no third check
C17_Witness ==
  \E c \in 1..MaxCalls :
    /\ calls[c].status = "done"
    /\ calls[c].outcome.threw
    /\ Len(calls[c].frames) = 3
    /\ calls[c].frames[3].res = <<TRUE>>
    /\ calls[c].frames[2].res = <<FALSE>>
    /\ calls[c].frames[1].res = <<>>


====
